---- MODULE Spec2Model ----
(***************************************************************************)
(* A model of the oplog consumer (package oplogc): the Consumer engine of  *)
(* Start/Stop, its read loop, control loop and periodic-save loop, the     *)
(* in-flight event ledger, and the server and caller they talk to.         *)
(*                                                                         *)
(* Record ids are the integers 1, 2, ... in feed order; the position        *)
(* token "" is NoId and the token "0" (full replication) is 0.             *)
(***************************************************************************)
EXTENDS Integers, Sequences, FiniteSets, TLC

\* ---------------------------------------------------------------- bounds
\* of Spec, a consumer without a state file
MaxFeed == 3        \* records the server generates
MaxDeliver == 4     \* operations handed to the caller
MaxFail == 2        \* failing responses and network failures
MaxSkip == 1        \* records generated while a stream is being set up
\* of SpecStore, a consumer with a state file
StoreMaxFeed == 1
StoreMaxDeliver == 1
StoreMaxFail == 1
\* of SpecRetry, a consumer whose server keeps failing
RetryMaxFeed == 1
RetryMaxDeliver == 1
RetryMaxFail == 6
\* of SpecConnect, connect called on its own
ConnMaxAttempts == 2
ConnMaxFeed == 2
ConnMaxFail == 2
ConnMaxSkip == 1
\* of SpecDecoder, decoder.next called on a stream
MaxLines == 4       \* lines of the stream before it ends
\* of SpecLedger, push and pull called on a ledger
MaxIds == 3         \* distinct ids pushed and pulled
\* of SpecLive, a consumer whose server also sends records without an id
LiveMaxFeed == 2
LiveMaxDeliver == 2
LiveMaxFail == 1
\* of SpecStart, callers of Start on one consumer
NumStarters == 2    \* goroutines that call Start

\* ------------------------------------------------------------- constants
NoId == -1          \* the empty string as an id or token
NotFound == -1      \* pull's index of an absent id
Second == 1
BackoffCap == 30

Missing == -2           \* the state file does not exist
Corrupt == -3           \* the state file holds content that fails the pattern
NoErr == "nil"

VARIABLES
    \* Options and the state file
    stateFile,      \* options.StateFile != ""
    allowRepl,      \* options.AllowReplication
    file,           \* content of the state file: Missing, Corrupt or a token
    \* Consumer fields
    lastId, saved, processing,
    cstop,          \* c.stop: "nil" or "set"
    body,           \* c.body: "nil", "dummy", "open", "broken" or "closed"
    ids,            \* c.ife.ids
    ifeLocked,      \* c.ife's mutex is held by readStream's Lock()
    \* channels made by Start
    stopClosed,     \* the stop channel of this run is closed
    stopRead,       \* stopReadStream is closed
    stopSave,       \* stopStateSaving is closed
    \* readStream
    rpc, op, rerr, backoff,
    \* control goroutine
    cpc, ackOp,
    \* periodicStateSaving
    spc, sLastId,
    \* server
    feed,           \* events of the records generated so far; record i has id i
    cursor,         \* index of the last record sent on the open body, else 0
    \* caller
    delivered,      \* operations received from the ops channel, in order
    acked,          \* indices of delivered whose Done() was consumed
    doneCount,      \* values received from the done channel in this run
    startBlocked,   \* the caller is blocked inside Start
    panicked,       \* the process died of a panic or fatal error
    posSet,         \* the caller has called SetLastId
    \* history and budgets
    stopNoop,       \* a call of Stop since the last Start found c.stop nil
    fails,          \* failing responses, network failures and failed writes
    limit,          \* the bounds of the specification being checked
    \* SpecStart: Start called from several goroutines
    sPc,            \* where each calling goroutine is inside Start
    sRun,           \* the workers launched by each goroutine's Start
    sStop,          \* c.stop: 0 for nil, or the goroutine whose Start made it
    sClosed,        \* whether the stop channel made by each Start is closed
    \* SpecConnect: connect called on its own
    lastResp,       \* the response to the last request, NoResp before any
    attempts,       \* calls of connect
    \* SpecDecoder: decoder.next called on a stream
    lines,          \* the lines of the stream not read yet
    dread,          \* the lines the last call read
    dop,            \* the Operation the calls fill
    derr,           \* the error the last call returned, "none" before any
    \* SpecLedger: push and pull called on a ledger
    lcall,          \* the last call and its argument
    idx             \* what the last pull returned

vars == <<stateFile, allowRepl, file, lastId, saved, processing, cstop, body,
          ids, ifeLocked, stopClosed, stopRead, stopSave, rpc, op, rerr,
          backoff, cpc, ackOp, spc, sLastId, feed, cursor, delivered, acked,
          doneCount, startBlocked, panicked, posSet, stopNoop, fails, limit, sPc,
          sRun, sStop, sClosed, lastResp, attempts, lines, dread, dop, derr,
          lcall, idx>>

cfgVars == <<stateFile, allowRepl>>
startVars == <<sPc, sRun, sStop, sClosed>>
unitVars == <<lastResp, attempts, lines, dread, dop, derr, lcall, idx>>
ifeVars == <<ids, ifeLocked>>
chanVars == <<stopClosed, stopRead, stopSave>>
readVars == <<rpc, op, rerr, backoff>>
ctlVars == <<cpc, ackOp>>
saveVars == <<spc, sLastId>>
srvVars == <<feed, cursor>>
callerVars == <<delivered, acked, doneCount, startBlocked, panicked, posSet>>
budgetVars == <<stopNoop, fails, limit>>

EmptyOp == [id |-> NoId, event |-> ""]

\* an Operation as the decoder fills it: Data is "nil" or "set"
EmptyDOp == [id |-> "", event |-> "", data |-> "nil"]

Starters == 1..NumStarters

\* ------------------------------------------------------ in-flight ledger
\* index of id in s counted from 0, NotFound if absent
IndexOf(s, id) ==
    IF \E i \in 1..Len(s) : s[i] = id
    THEN (CHOOSE i \in 1..Len(s) : s[i] = id /\ \A j \in 1..(i-1) : s[j] # id) - 1
    ELSE NotFound

RemoveAt(s, i) == [j \in 1..(Len(s)-1) |-> IF j < i THEN s[j] ELSE s[j+1]]

count(s) == Len(s)

\* a variant of push that appends without looking for the id
pushAlways(s, id) == Append(s, id)

push(s, id) == IF \E i \in 1..Len(s) : s[i] = id THEN s ELSE Append(s, id)

pullIndex(s, id) == IndexOf(s, id)

pullIds(s, id) ==
    IF IndexOf(s, id) = NotFound THEN s ELSE RemoveAt(s, IndexOf(s, id) + 1)


\* --------------------------------------------------------- position store
\* loadLastEventID: the id to resume from and whether loading failed
loadLastEventID(sf, ar, f) ==
    IF ~sf THEN [id |-> NoId, err |-> FALSE]
    ELSE IF f = Missing THEN [id |-> IF ar THEN 0 ELSE NoId, err |-> FALSE]
    ELSE IF f = Corrupt THEN [id |-> NoId, err |-> TRUE]
    ELSE [id |-> f, err |-> FALSE]

\* ------------------------------------------------------------------ server
Events == {"insert", "reset"}

\* the events of the records the server generates: a "live" record carries no
\* id line
FeedEvents == Events \cup (IF limit.live THEN {"live"} ELSE {})

\* record i of feed f as the stream carries it
RecordAt(f, i) == [id |-> IF f[i] = "live" THEN NoId ELSE i, event |-> f[i]]

\* a variant of Decode that also clears the id
DecodeClearsId(o, rec) == [id |-> rec.id, event |-> rec.event]

\* decoder.next on a well-formed record: Event and Data are cleared, ID is
\* only overwritten by an id line
Decode(o, rec) ==
    [id |-> IF rec.id = NoId THEN o.id ELSE rec.id, event |-> rec.event]

\* no request was made yet
NoResp == [neterr |-> FALSE, echo |-> FALSE, status |-> 0]

\* what the server may answer to a GET
Responses ==
    {[neterr |-> TRUE, echo |-> FALSE, status |-> 0]} \cup
    [neterr : {FALSE}, echo : BOOLEAN, status : {200, 401, 403, 500}]

\* a variant of Classify that looks at the status code before the echoed
\* Last-Event-ID
ClassifyStatusFirst(last, resp) ==
    IF resp.neterr THEN "transport"
    ELSE IF resp.status = 403 \/ resp.status = 401 THEN "denied"
    ELSE IF last # NoId /\ ~resp.echo THEN "resume"
    ELSE IF resp.status # 200 THEN "http"
    ELSE NoErr

\* connect's classification of a response to a request made with position last
Classify(last, resp) ==
    IF resp.neterr THEN "transport"
    ELSE IF last # NoId /\ ~resp.echo THEN "resume"
    ELSE IF resp.status = 403 \/ resp.status = 401 THEN "denied"
    ELSE IF resp.status # 200 THEN "http"
    ELSE NoErr

\* Where a stream answered with 200 starts: after the requested position, or,
\* when no position was sent, at the present: the records the server has
\* generated so far are not sent, nor are the k it generates before the stream
\* is set up
StreamStart(last, k) == IF last = NoId THEN Len(feed) + k ELSE last

\* c.connect(): the old body is dropped, a dummy body stands in on failure, and
\* on success the response body becomes the stream
connect(resp) ==
    LET err == Classify(lastId, resp) IN
    /\ (err # NoErr => fails < limit.fail)
    /\ fails' = IF err # NoErr THEN fails + 1 ELSE fails
    /\ body' = IF err = NoErr THEN "open" ELSE "dummy"
    /\ IF err # NoErr
       THEN cursor' = 0 /\ UNCHANGED feed
       ELSE \E k \in 0..(IF lastId = NoId THEN limit.skip ELSE 0) :
               /\ Len(feed) + k <= limit.feed
               /\ \E evs \in [1..k -> FeedEvents] : feed' = feed \o evs
               /\ cursor' = StreamStart(lastId, k)

\* ------------------------------------------------------------------- Init
\* the state after Subscribe; the state file and the options are the caller's
Constructed ==
    /\ lastId = NoId /\ saved = FALSE /\ processing = FALSE
    /\ cstop = "nil" /\ body = "nil"
    /\ ids = <<>> /\ ifeLocked = FALSE
    /\ stopClosed = FALSE /\ stopRead = FALSE /\ stopSave = FALSE
    /\ rpc = "idle" /\ op = EmptyOp /\ rerr = NoErr /\ backoff = Second
    /\ cpc = "idle" /\ ackOp = EmptyOp
    /\ spc = "idle" /\ sLastId = NoId
    /\ feed = <<>> /\ cursor = 0
    /\ delivered = <<>> /\ acked = {} /\ doneCount = 0
    /\ startBlocked = FALSE /\ panicked = FALSE /\ posSet = FALSE
    /\ stopNoop = FALSE /\ fails = 0
    /\ sPc = [g \in Starters |-> "idle"]
    /\ sRun = [g \in Starters |-> "none"]
    /\ sStop = 0
    /\ sClosed = [g \in Starters |-> FALSE]

\* the variables of the specifications of single functions, where unused
UnitIdle ==
    /\ lastResp = NoResp /\ attempts = 0
    /\ lines = <<>> /\ dread = <<>> /\ dop = EmptyDOp /\ derr = "none"
    /\ lcall = <<"none", NoId>> /\ idx = NotFound

\* ----------------------------------------------------------- Start, Stop
\* Start on a consumer that is not processing: the flag, the stop channel, the
\* load of the position, and the goroutines it launches
StartBody ==
    /\ ~processing
    /\ processing' = TRUE
    /\ cstop' = "set"
    /\ stopClosed' = FALSE
    /\ stopNoop' = FALSE
    /\ LET l == loadLastEventID(stateFile, allowRepl, file) IN
       IF l.err
       THEN \* errs <- err, while nobody but Start holds errs
            /\ startBlocked' = TRUE
            /\ UNCHANGED <<lastId, stopRead, stopSave, readVars, ctlVars,
                           saveVars, doneCount>>
       ELSE /\ lastId' = l.id
            /\ stopRead' = FALSE /\ stopSave' = FALSE
            /\ rpc' = "connect" /\ op' = EmptyOp /\ rerr' = NoErr
            /\ backoff' = Second
            /\ spc' = IF stateFile THEN "wait" ELSE "none"
            /\ sLastId' = NoId
            /\ cpc' = "select" /\ ackOp' = EmptyOp
            /\ doneCount' = 0
            /\ UNCHANGED startBlocked
    /\ UNCHANGED <<cfgVars, startVars, unitVars, file, saved, body, ifeVars, srvVars, delivered,
                   acked, panicked, posSet, fails, limit>>

\* the caller starts the consumer it has subscribed
Start ==
    /\ ~panicked /\ ~startBlocked
    /\ cpc = "idle"
    /\ StartBody

\* a variant of Stop that leaves c.stop set after closing it, so that the next
\* Stop closes a closed channel
StopKeepsChannel ==
    /\ ~panicked
    /\ IF cstop # "nil"
       THEN IF stopClosed
            THEN panicked' = TRUE /\ UNCHANGED <<stopClosed, cstop, stopNoop>>
            ELSE stopClosed' = TRUE /\ UNCHANGED <<cstop, stopNoop, panicked>>
       ELSE stopNoop' = TRUE /\ UNCHANGED <<stopClosed, cstop, panicked>>
    /\ UNCHANGED <<cfgVars, startVars, unitVars, file, lastId, saved, processing, body, ifeVars,
                   stopRead, stopSave, readVars, ctlVars, saveVars, srvVars,
                   delivered, acked, doneCount, startBlocked, posSet, fails, limit>>

Stop ==
    /\ ~panicked
    /\ IF cstop # "nil"
       THEN stopClosed' = TRUE /\ cstop' = "nil" /\ UNCHANGED stopNoop
       ELSE stopNoop' = TRUE /\ UNCHANGED <<stopClosed, cstop>>
    /\ UNCHANGED <<cfgVars, startVars, unitVars, file, lastId, saved, processing, body, ifeVars,
                   stopRead, stopSave, readVars, ctlVars, saveVars, srvVars,
                   callerVars, fails, limit>>

\* the caller's SetLastId("0"), its way to force a full replication
SetLastId(id) ==
    /\ lastId' = id
    /\ saved' = FALSE

CallerSetLastId ==
    /\ ~panicked /\ ~startBlocked
    /\ processing
    /\ ~posSet
    /\ SetLastId(0)
    /\ posSet' = TRUE
    /\ UNCHANGED <<cfgVars, startVars, unitVars, file, processing, cstop, body, ifeVars, chanVars,
                   readVars, ctlVars, saveVars, srvVars, delivered, acked,
                   doneCount, startBlocked, panicked, budgetVars>>


\* -------------------------------------------------------------- readStream
\* c.connect() before the loop; its result is not looked at
RConnect ==
    /\ ~panicked
    /\ rpc = "connect"
    /\ \E resp \in Responses : connect(resp)
    /\ rpc' = "next"
    /\ UNCHANGED <<cfgVars, startVars, unitVars, file, lastId, saved, processing, cstop, ifeVars,
                   chanVars, op, rerr, backoff, ctlVars, saveVars,
                   callerVars, stopNoop, limit>>

\* readStream returns: wg.Done(), and its locals op and backoff are gone
Return ==
    /\ rpc' = "exit"
    /\ op' = EmptyOp
    /\ backoff' = Second

\* d.Next(&op) returns the next record of the stream, one generated earlier or
\* one the server generates now, and the select that follows finds stop open or
\* closed
RNextOp ==
    /\ ~panicked
    /\ rpc = "next"
    /\ body = "open"
    /\ IF cursor < Len(feed)
       THEN UNCHANGED feed
       ELSE /\ Len(feed) < limit.feed
            /\ \E e \in FeedEvents : feed' = Append(feed, e)
    /\ cursor' = cursor + 1
    /\ rerr' = NoErr
    /\ IF stopRead
       THEN Return
       ELSE /\ op' = Decode(op, RecordAt(feed', cursor + 1))
            /\ rpc' = "push"
            /\ UNCHANGED backoff
    /\ UNCHANGED <<cfgVars, startVars, unitVars, file, lastId, saved, processing, cstop, body, ifeVars,
                   chanVars, ctlVars, saveVars, callerVars, budgetVars>>

\* d.Next(&op) fails: the body is the dummy or was closed, or the network
\* breaks; then the select on stop. A read that fails before any field of a
\* record leaves op.Event empty and the decoder returns ErrInvalidEvent; a
\* stream that breaks inside a record may also yield ErrConnectionClosed
RNextErr ==
    /\ ~panicked
    /\ rpc = "next"
    /\ \/ body \in {"dummy", "closed", "broken"} /\ UNCHANGED <<fails, body>>
       \/ body = "open" /\ fails < limit.fail /\ fails' = fails + 1
          /\ body' = "broken"
    /\ cursor' = 0
    /\ IF stopRead
       THEN Return /\ rerr' = NoErr
       ELSE /\ op' = [op EXCEPT !.event = ""]
            /\ rerr' \in (IF body = "open" THEN {"invalid", "closed"} ELSE {"invalid"})
            /\ rpc' = "senderr"
            /\ UNCHANGED backoff
    /\ UNCHANGED <<cfgVars, startVars, unitVars, file, lastId, saved, processing, cstop, ifeVars,
                   chanVars, ctlVars, saveVars, feed, callerVars, stopNoop, limit>>

\* errs <- err, received by the caller; then time.Sleep(backoff) and the
\* doubling of backoff
RSendErr ==
    /\ ~panicked /\ ~startBlocked
    /\ rpc = "senderr"
    /\ rerr' = NoErr
    /\ backoff' = IF backoff < BackoffCap * Second THEN backoff * 2 ELSE backoff
    /\ rpc' = "reconnect"
    /\ UNCHANGED <<cfgVars, startVars, unitVars, file, lastId, saved, processing, cstop, body, ifeVars,
                   chanVars, op, ctlVars, saveVars, srvVars, callerVars,
                   budgetVars>>

\* c.connect() of the retry loop
RReconnect ==
    /\ ~panicked
    /\ rpc = "reconnect"
    /\ \E resp \in Responses :
          /\ connect(resp)
          /\ rerr' = Classify(lastId, resp)
          /\ rpc' = IF Classify(lastId, resp) = NoErr THEN "next" ELSE "senderr"
    /\ UNCHANGED <<cfgVars, startVars, unitVars, file, lastId, saved, processing, cstop, ifeVars,
                   chanVars, op, backoff, ctlVars, saveVars, callerVars, stopNoop, limit>>

\* after the push, and the lock of a reset, the second select on stop returns,
\* or the operation is sent
AfterPush ==
    IF stopRead THEN Return ELSE rpc' = "sendop" /\ UNCHANGED <<op, backoff>>

\* c.ife.Push(op.ID), which waits for the ledger's mutex
RPush ==
    /\ ~panicked
    /\ rpc = "push"
    /\ ~ifeLocked
    /\ ids' = push(ids, op.id)
    /\ IF op.event = "reset"
       THEN rpc' = "lock" /\ UNCHANGED <<op, backoff>>
       ELSE AfterPush
    /\ UNCHANGED <<cfgVars, startVars, unitVars, file, lastId, saved, processing, cstop, body, ifeLocked,
                   chanVars, rerr, ctlVars, saveVars, srvVars, callerVars,
                   budgetVars>>

\* a variant of RLock in which a pushed reset does not take the ledger's mutex
RLockSkipped ==
    /\ ~panicked
    /\ rpc = "lock"
    /\ AfterPush
    /\ UNCHANGED <<cfgVars, startVars, unitVars, file, lastId, saved, processing, cstop, body, ifeVars,
                   chanVars, rerr, ctlVars, saveVars, srvVars, callerVars,
                   budgetVars>>

\* c.ife.Lock() after a reset was pushed
RLock ==
    /\ ~panicked
    /\ rpc = "lock"
    /\ ~ifeLocked
    /\ ifeLocked' = TRUE
    /\ AfterPush
    /\ UNCHANGED <<cfgVars, startVars, unitVars, file, lastId, saved, processing, cstop, body, ids,
                   chanVars, rerr, ctlVars, saveVars, srvVars, callerVars,
                   budgetVars>>

\* ops <- op, received by the caller, and the reset of backoff
RSendOp ==
    /\ ~panicked /\ ~startBlocked
    /\ rpc = "sendop"
    /\ Len(delivered) < limit.deliver
    /\ delivered' = Append(delivered, op)
    /\ backoff' = Second
    /\ rpc' = "next"
    /\ UNCHANGED <<cfgVars, startVars, unitVars, file, lastId, saved, processing, cstop, body, ifeVars,
                   chanVars, op, rerr, ctlVars, saveVars, srvVars, acked,
                   doneCount, startBlocked, panicked, posSet, budgetVars>>

\* ------------------------------------------------- Start's control goroutine
\* case <-stop: both stop channels are closed and the body is closed
CtlStop ==
    /\ ~panicked
    /\ cpc = "select"
    /\ stopClosed
    /\ stopRead' = TRUE /\ stopSave' = TRUE
    /\ body' = IF body # "nil" THEN "closed" ELSE body
    /\ cursor' = IF body # "nil" THEN 0 ELSE cursor
    /\ cpc' = "wait"
    /\ UNCHANGED <<cfgVars, startVars, unitVars, file, lastId, saved, processing, cstop, ifeVars,
                   stopClosed, readVars, ackOp, saveVars, feed, callerVars,
                   budgetVars>>

\* a variant of CtlWait in which periodicStateSaving is not in the wait group
CtlWaitReadOnly ==
    /\ ~panicked
    /\ cpc = "wait"
    /\ rpc = "exit"
    /\ processing' = FALSE
    /\ cpc' = "senddone"
    /\ UNCHANGED <<cfgVars, startVars, unitVars, file, lastId, saved, cstop, body, ifeVars, chanVars,
                   readVars, ackOp, saveVars, srvVars, callerVars, budgetVars>>

\* wg.Wait() returns once readStream and periodicStateSaving have returned
CtlWait ==
    /\ ~panicked
    /\ cpc = "wait"
    /\ rpc = "exit"
    /\ spc \in {"exit", "none"}
    /\ processing' = FALSE
    /\ cpc' = "senddone"
    /\ UNCHANGED <<cfgVars, startVars, unitVars, file, lastId, saved, cstop, body, ifeVars, chanVars,
                   readVars, ackOp, saveVars, srvVars, callerVars, budgetVars>>

\* done <- true, received by the caller
CtlSendDone ==
    /\ ~panicked /\ ~startBlocked
    /\ cpc = "senddone"
    /\ doneCount' = doneCount + 1
    /\ cpc' = "exit"
    /\ ackOp' = EmptyOp
    /\ UNCHANGED <<cfgVars, startVars, unitVars, file, lastId, saved, processing, cstop, body, ifeVars,
                   chanVars, readVars, saveVars, srvVars, delivered, acked,
                   startBlocked, panicked, posSet, budgetVars>>

\* case op := <-c.ack: the caller's Done() on delivery i is received; a reset
\* unlocks the ledger, and unlocking an unlocked mutex is fatal
CtlRecvAck(i) ==
    /\ ~panicked
    /\ cpc = "select"
    /\ i \in (1..Len(delivered)) \ acked
    /\ acked' = acked \cup {i}
    /\ ackOp' = delivered[i]
    /\ IF delivered[i].event = "reset"
       THEN IF ifeLocked
            THEN ifeLocked' = FALSE /\ cpc' = "pull" /\ UNCHANGED panicked
            ELSE panicked' = TRUE /\ UNCHANGED <<ifeLocked, cpc>>
       ELSE cpc' = "pull" /\ UNCHANGED <<ifeLocked, panicked>>
    /\ UNCHANGED <<cfgVars, startVars, unitVars, file, lastId, saved, processing, cstop, body, ids,
                   chanVars, readVars, saveVars, srvVars, delivered, doneCount,
                   startBlocked, posSet, budgetVars>>

\* a variant of CtlPull that advances the position whenever the id was found
CtlPullAnyIndex ==
    /\ ~panicked
    /\ cpc = "pull"
    /\ ~ifeLocked
    /\ ids' = pullIds(ids, ackOp.id)
    /\ cpc' = IF pullIndex(ids, ackOp.id) # NotFound THEN "setlast" ELSE "select"
    /\ UNCHANGED <<cfgVars, startVars, unitVars, file, lastId, saved, processing, cstop, body, ifeLocked,
                   chanVars, readVars, ackOp, saveVars, srvVars, callerVars,
                   budgetVars>>

\* c.ife.Pull(op.ID), which waits for the ledger's mutex
CtlPull ==
    /\ ~panicked
    /\ cpc = "pull"
    /\ ~ifeLocked
    /\ ids' = pullIds(ids, ackOp.id)
    /\ cpc' = IF pullIndex(ids, ackOp.id) = 0 THEN "setlast" ELSE "select"
    /\ UNCHANGED <<cfgVars, startVars, unitVars, file, lastId, saved, processing, cstop, body, ifeLocked,
                   chanVars, readVars, ackOp, saveVars, srvVars, callerVars,
                   budgetVars>>

\* c.SetLastId(op.ID) when the pulled index was 0
CtlSetLastId ==
    /\ ~panicked
    /\ cpc = "setlast"
    /\ SetLastId(ackOp.id)
    /\ cpc' = "select"
    /\ UNCHANGED <<cfgVars, startVars, unitVars, file, processing, cstop, body, ifeVars, chanVars,
                   readVars, ackOp, saveVars, srvVars, callerVars, budgetVars>>

\* ----------------------------------------------------- periodicStateSaving
SaveStop ==
    /\ ~panicked
    /\ spc = "wait"
    /\ stopSave
    /\ spc' = "exit"
    /\ UNCHANGED <<cfgVars, startVars, unitVars, file, lastId, saved, processing, cstop, body, ifeVars,
                   chanVars, readVars, ctlVars, sLastId, srvVars, callerVars,
                   budgetVars>>

\* a tick: saved and lastId are read; nothing is written when saved
SaveTick ==
    /\ ~panicked
    /\ spc = "wait"
    /\ ~saved
    /\ sLastId' = lastId
    /\ spc' = "write"
    /\ UNCHANGED <<cfgVars, startVars, unitVars, file, lastId, saved, processing, cstop, body, ifeVars,
                   chanVars, readVars, ctlVars, srvVars, callerVars, budgetVars>>

\* saveLastEventID(lastId) overwrites the file, or fails
SaveWrite ==
    /\ ~panicked
    /\ spc = "write"
    /\ \/ file' = sLastId /\ spc' = "update" /\ UNCHANGED fails
       \/ fails < limit.fail /\ fails' = fails + 1 /\ spc' = "senderr"
          /\ UNCHANGED file
    /\ UNCHANGED <<cfgVars, startVars, unitVars, lastId, saved, processing, cstop, body, ifeVars,
                   chanVars, readVars, ctlVars, sLastId, srvVars, callerVars, stopNoop, limit>>

\* errs <- ErrWritingState, received by the caller
SaveSendErr ==
    /\ ~panicked /\ ~startBlocked
    /\ spc = "senderr"
    /\ spc' = "update"
    /\ UNCHANGED <<cfgVars, startVars, unitVars, file, lastId, saved, processing, cstop, body, ifeVars,
                   chanVars, readVars, ctlVars, sLastId, srvVars, callerVars,
                   budgetVars>>

\* a variant of SaveUpdate that marks the position saved once the write is done
SaveUpdateNoCompare ==
    /\ ~panicked
    /\ spc = "update"
    /\ saved' = TRUE
    /\ spc' = "wait"
    /\ UNCHANGED <<cfgVars, startVars, unitVars, file, lastId, processing, cstop, body, ifeVars,
                   chanVars, readVars, ctlVars, sLastId, srvVars, callerVars,
                   budgetVars>>

\* c.saved = lastId == c.lastId
SaveUpdate ==
    /\ ~panicked
    /\ spc = "update"
    /\ saved' = (sLastId = lastId)
    /\ spc' = "wait"
    /\ UNCHANGED <<cfgVars, startVars, unitVars, file, lastId, processing, cstop, body, ifeVars,
                   chanVars, readVars, ctlVars, sLastId, srvVars, callerVars,
                   budgetVars>>

\* --------------------------------------------------------------- the system
\* the goroutines of a consumer without a state file, its server and its caller
Core ==
    \/ Start
    \/ Stop
    \/ RConnect
    \/ RNextOp
    \/ RNextErr
    \/ RSendErr
    \/ RReconnect
    \/ RPush
    \/ RLock
    \/ RSendOp
    \/ CtlStop
    \/ CtlWait
    \/ CtlSendDone
    \/ \E i \in 1..Len(delivered) : CtlRecvAck(i)
    \/ CtlPull
    \/ CtlSetLastId

Init ==
    /\ stateFile = FALSE /\ allowRepl = FALSE /\ file = Missing
    /\ limit = [feed |-> MaxFeed, deliver |-> MaxDeliver, fail |-> MaxFail,
                skip |-> MaxSkip, live |-> FALSE]
    /\ Constructed
    /\ UnitIdle

Next == Core

\* Spec: a consumer without a state file, from Subscribe through one Start
Spec == Init /\ [][Next]_vars

\* the periodic-save loop and the caller's SetLastId
Store ==
    \/ CallerSetLastId
    \/ SaveStop
    \/ SaveTick
    \/ SaveWrite
    \/ SaveSendErr
    \/ SaveUpdate

InitStore ==
    /\ stateFile = TRUE
    /\ allowRepl \in BOOLEAN
    /\ file \in {Missing, Corrupt, 0}
    /\ (file # Missing => ~allowRepl)
    /\ limit = [feed |-> StoreMaxFeed, deliver |-> StoreMaxDeliver,
                fail |-> StoreMaxFail, skip |-> 0, live |-> FALSE]
    /\ Constructed
    /\ UnitIdle

NextStore == Core \/ Store

\* SpecStore: a consumer with a state file, from Subscribe through one Start
SpecStore == InitStore /\ [][NextStore]_vars

\* SpecStoreFair: SpecStore in which the goroutine of periodicStateSaving keeps
\* running: its timer fires, and its write and its update of saved complete
SpecStoreFair ==
    /\ SpecStore
    /\ WF_vars(SaveTick) /\ WF_vars(SaveWrite) /\ WF_vars(SaveUpdate)

InitRetry ==
    /\ stateFile = FALSE /\ allowRepl = FALSE /\ file = Missing
    /\ limit = [feed |-> RetryMaxFeed, deliver |-> RetryMaxDeliver,
                fail |-> RetryMaxFail, skip |-> 0, live |-> FALSE]
    /\ Constructed
    /\ UnitIdle

\* SpecRetry: a consumer without a state file against a server that fails often
SpecRetry == InitRetry /\ [][Next]_vars
InitLive ==
    /\ stateFile = FALSE /\ allowRepl = FALSE /\ file = Missing
    /\ limit = [feed |-> LiveMaxFeed, deliver |-> LiveMaxDeliver,
                fail |-> LiveMaxFail, skip |-> 0, live |-> TRUE]
    /\ Constructed
    /\ UnitIdle

\* SpecLive: a consumer without a state file whose server also sends records
\* that carry no id
SpecLive == InitLive /\ [][Next]_vars

\* ------------------------------------------------------- connect on its own
\* SpecConnect follows calls of connect on a consumer whose position the caller
\* sets between the calls
CSetPosition ==
    /\ \E id \in {NoId} \cup (0..limit.feed) : SetLastId(id)
    /\ UNCHANGED <<cfgVars, startVars, unitVars, file, processing, cstop, body,
                   ifeVars, chanVars, readVars, ctlVars, saveVars, srvVars,
                   callerVars, budgetVars>>

\* err = c.connect()
CConnect ==
    /\ attempts < limit.attempts
    /\ attempts' = attempts + 1
    /\ \E resp \in Responses :
          /\ connect(resp)
          /\ rerr' = Classify(lastId, resp)
          /\ lastResp' = resp
    /\ UNCHANGED <<cfgVars, startVars, lines, dread, dop, derr, lcall, idx, file,
                   lastId, saved, processing, cstop, ifeVars, chanVars, rpc, op,
                   backoff, ctlVars, saveVars, callerVars, stopNoop, limit>>

InitConnect ==
    /\ stateFile = FALSE /\ allowRepl = FALSE /\ file = Missing
    /\ limit = [feed |-> ConnMaxFeed, deliver |-> 0, fail |-> ConnMaxFail,
                skip |-> ConnMaxSkip, live |-> FALSE, attempts |-> ConnMaxAttempts]
    /\ Constructed
    /\ UnitIdle

NextConnect == CSetPosition \/ CConnect

SpecConnect == InitConnect /\ [][NextConnect]_vars

\* ----------------------------------------------------------------- decoder
\* The lines of a stream: a field line with its value, the empty line, or a
\* comment. The value of a data line is JSON that decodes ("ok"), JSON that is
\* not well formed ("syntax": Unmarshal fails and leaves op.Data alone) or
\* well-formed JSON of the wrong type ("type": Unmarshal fails after it has
\* allocated op.Data).
LineKinds ==
    {[f |-> "id", v |-> "1"]} \cup
    [f : {"event"}, v : {"insert", "reset", "live"}] \cup
    [f : {"data"}, v : {"ok", "syntax", "type"}] \cup
    {[f |-> "blank", v |-> ""], [f |-> "comment", v |-> ""]}

Streams == UNION {[1..n -> LineKinds] : n \in 0..MaxLines}

\* json.Unmarshal([]byte(value), &op.Data)
Unmarshal(o, v) ==
    IF v = "syntax" THEN o ELSE [o EXCEPT !.data = "set"]

\* Operation.Validate
Validate(o) ==
    /\ o.event # ""
    /\ ~(o.data = "nil" /\ o.event # "reset" /\ o.event # "live")

\* the loop of decoder.next: err is what the last statement assigned to it
\* when the loop is left, rest the lines not read, read the lines read
RECURSIVE nextLoop(_, _, _, _, _)
nextLoop(o, err, started, rest, read) ==
    IF rest = <<>>
    THEN [op |-> o, err |-> "closed", rest |-> rest, read |-> read]
    ELSE LET l == Head(rest)
             r == Tail(rest)
             rd == Append(read, l)
         IN  IF l.f = "blank"
             THEN IF started
                  THEN [op |-> o, err |-> NoErr, rest |-> r, read |-> rd]
                  ELSE nextLoop(o, NoErr, started, r, rd)
             ELSE IF l.f = "comment" THEN nextLoop(o, NoErr, started, r, rd)
             ELSE IF l.f = "id"
                  THEN nextLoop([o EXCEPT !.id = l.v], NoErr, TRUE, r, rd)
             ELSE IF l.f = "event"
                  THEN nextLoop([o EXCEPT !.event = l.v], NoErr, TRUE, r, rd)
             ELSE \* "data": the break leaves the switch, not the loop
                  nextLoop(Unmarshal(o, l.v),
                           IF l.v = "ok" THEN NoErr ELSE "invalid", TRUE, r, rd)

\* decoder.next(op) on a stream whose unread lines are ls
next(o, ls) ==
    LET r == nextLoop([o EXCEPT !.event = "", !.data = "nil"], NoErr, FALSE,
                      ls, <<>>)
        e1 == IF r.err = NoErr /\ r.op.event = "" THEN "incomplete" ELSE r.err
        e2 == IF ~Validate(r.op) THEN "invalid" ELSE e1
    IN  [r EXCEPT !.err = e2]

\* err := d.next(&op)
DNext ==
    /\ LET r == next(dop, lines) IN
          /\ dop' = r.op
          /\ derr' = r.err
          /\ lines' = r.rest
          /\ dread' = r.read
    /\ UNCHANGED <<cfgVars, startVars, lastResp, attempts, lcall, idx, file,
                   lastId, saved, processing, cstop, body, ifeVars, chanVars,
                   readVars, ctlVars, saveVars, srvVars, callerVars, budgetVars>>

InitDecoder ==
    /\ stateFile = FALSE /\ allowRepl = FALSE /\ file = Missing
    /\ limit = [feed |-> 0, deliver |-> 0, fail |-> 0, skip |-> 0, live |-> FALSE]
    /\ Constructed
    /\ lastResp = NoResp /\ attempts = 0
    /\ lines \in Streams /\ dread = <<>> /\ dop = EmptyDOp /\ derr = "none"
    /\ lcall = <<"none", NoId>> /\ idx = NotFound

NextDecoder == DNext

SpecDecoder == InitDecoder /\ [][NextDecoder]_vars

\* ------------------------------------------------------ ledger on its own
\* ife.push(id)
LPush(id) ==
    /\ ids' = push(ids, id)
    /\ lcall' = <<"push", id>>
    /\ UNCHANGED <<cfgVars, startVars, lastResp, attempts, lines, dread, dop,
                   derr, idx, file, lastId, saved, processing, cstop, body,
                   ifeLocked, chanVars, readVars, ctlVars, saveVars, srvVars,
                   callerVars, budgetVars>>

\* index := ife.pull(id)
LPull(id) ==
    /\ ids' = pullIds(ids, id)
    /\ idx' = pullIndex(ids, id)
    /\ lcall' = <<"pull", id>>
    /\ UNCHANGED <<cfgVars, startVars, lastResp, attempts, lines, dread, dop,
                   derr, file, lastId, saved, processing, cstop, body,
                   ifeLocked, chanVars, readVars, ctlVars, saveVars, srvVars,
                   callerVars, budgetVars>>

InitLedger ==
    /\ stateFile = FALSE /\ allowRepl = FALSE /\ file = Missing
    /\ limit = [feed |-> 0, deliver |-> 0, fail |-> 0, skip |-> 0, live |-> FALSE]
    /\ Constructed
    /\ UnitIdle

NextLedger ==
    \/ \E id \in 1..MaxIds : LPush(id)
    \/ \E id \in 1..MaxIds : LPull(id)

SpecLedger == InitLedger /\ [][NextLedger]_vars

\* ------------------------------------------------ Start from several goroutines
\* SpecStart follows the flag "processing" and the workers of a consumer without
\* a state file whose Start and Stop are called from several goroutines; a run
\* is "active" while its readStream runs, "stopping" once its control goroutine
\* has taken the stop, "joined" once readStream has returned, and then "done"
mainVars == <<cfgVars, unitVars, file, lastId, saved, cstop, body, ifeVars, chanVars,
              readVars, ctlVars, saveVars, srvVars, delivered, acked, doneCount,
              startBlocked, posSet, budgetVars>>

\* if c.processing { panic(...) }
SStartCheck(g) ==
    /\ ~panicked
    /\ sPc[g] = "idle"
    /\ sRun[g] \in {"none", "done"}
    /\ IF processing
       THEN panicked' = TRUE /\ UNCHANGED sPc
       ELSE sPc' = [sPc EXCEPT ![g] = "checked"] /\ UNCHANGED panicked
    /\ UNCHANGED <<mainVars, processing, sRun, sStop, sClosed>>

\* c.processing = true, the stop channel, and the goroutines
SStartLaunch(g) ==
    /\ ~panicked
    /\ sPc[g] = "checked"
    /\ processing' = TRUE
    /\ sStop' = g
    /\ sClosed' = [sClosed EXCEPT ![g] = FALSE]
    /\ sRun' = [sRun EXCEPT ![g] = "active"]
    /\ sPc' = [sPc EXCEPT ![g] = "idle"]
    /\ UNCHANGED <<mainVars, panicked>>

\* Stop closes the channel c.stop holds
SStop ==
    /\ ~panicked
    /\ sStop # 0
    /\ sClosed' = [sClosed EXCEPT ![sStop] = TRUE]
    /\ sStop' = 0
    /\ UNCHANGED <<mainVars, processing, panicked, sPc, sRun>>

\* case <-stop of the control goroutine of g's Start
SCtlStop(g) ==
    /\ ~panicked
    /\ sRun[g] = "active"
    /\ sClosed[g]
    /\ sRun' = [sRun EXCEPT ![g] = "stopping"]
    /\ UNCHANGED <<mainVars, processing, panicked, sPc, sStop, sClosed>>

\* readStream of g's Start finds its stop channel closed and returns
SReadReturn(g) ==
    /\ ~panicked
    /\ sRun[g] = "stopping"
    /\ sRun' = [sRun EXCEPT ![g] = "joined"]
    /\ UNCHANGED <<mainVars, processing, panicked, sPc, sStop, sClosed>>

\* wg.Wait() has returned: c.processing = false and done <- true
SCtlDone(g) ==
    /\ ~panicked
    /\ sRun[g] = "joined"
    /\ processing' = FALSE
    /\ sRun' = [sRun EXCEPT ![g] = "done"]
    /\ UNCHANGED <<mainVars, panicked, sPc, sStop, sClosed>>

InitStart ==
    /\ stateFile = FALSE /\ allowRepl = FALSE /\ file = Missing
    /\ limit = [feed |-> 0, deliver |-> 0, fail |-> 0, skip |-> 0, live |-> FALSE]
    /\ Constructed
    /\ UnitIdle

NextStart ==
    \/ \E g \in Starters : SStartCheck(g)
    \/ \E g \in Starters : SStartLaunch(g)
    \/ SStop
    \/ \E g \in Starters : SCtlStop(g)
    \/ \E g \in Starters : SReadReturn(g)
    \/ \E g \in Starters : SCtlDone(g)

SpecStart == InitStart /\ [][NextStart]_vars

\* the goroutines whose Start has a readStream running
ReadLoops == {g \in Starters : sRun[g] \in {"active", "stopping"}}

\* ================================================================== claims
Range(s) == {s[i] : i \in 1..Len(s)}

Without(s, id) == SelectSeq(s, LAMBDA x : x # id)

\* ids of the operations delivered to the caller of which no delivery has been
\* acknowledged
UnackedIds ==
    {delivered[i].id : i \in 1..Len(delivered)} \ {delivered[i].id : i \in acked}

\* a reset has been pushed onto the ledger and its acknowledgement has not been
\* consumed by the control loop
ResetInFlight ==
    \/ rpc \in {"lock", "sendop"} /\ op.event = "reset"
    \/ \E i \in (1..Len(delivered)) \ acked : delivered[i].event = "reset"

\* C1: an acknowledgement consumed by the control loop removes at most the
\* acknowledged id from the ledger; it moves lastId only when that id was at
\* index 0 of the ledger when it was pulled, and then to exactly that id, marking
\* the position dirty; otherwise lastId and saved are left unchanged.
C1_AckAdvancesOnlyFromIndexZero ==
    [][/\ (cpc = "pull" /\ cpc' # "pull") =>
            /\ ids' = Without(ids, ackOp.id)
            /\ lastId' = lastId /\ saved' = saved
            /\ cpc' = IF Len(ids) > 0 /\ ids[1] = ackOp.id THEN "setlast"
                      ELSE "select"
       /\ (cpc = "setlast" /\ cpc' # "setlast") =>
            /\ lastId' = ackOp.id /\ saved' = FALSE /\ ids' = ids
       /\ (cpc \in {"select", "pull"} /\ cpc' \in {"select", "pull"}) =>
            lastId' = lastId
      ]_vars

\* C1 witness: ids 1, 2, 3 were delivered in that order and all acknowledged,
\* 1 last: the position is 1, not 3
C1_Witness ==
    /\ Len(delivered) = 3
    /\ \A i \in 1..3 : delivered[i].id = i
    /\ acked = {1, 2, 3}
    /\ ids = <<>>
    /\ cpc = "select"
    /\ lastId = 1

\* C2: the position never identifies a record later in feed order than a record
\* that was delivered to the caller and is not acknowledged.
C2_PositionNeverPastUnacked ==
    \A id \in UnackedIds : ~(lastId > id)

\* C3: no acknowledgement moves the position back to an earlier record.
C3_PositionMonotonic ==
    [][(cpc = "setlast" /\ cpc' # "setlast") => lastId' >= lastId]_vars

C5_ControlLoopNeverBlocked ==
    ~(cpc = "pull" /\ ifeLocked)

\* C6: after Stop, the control loop is never left waiting for a read loop that
\* is itself waiting to push onto a ledger locked by an unacknowledged reset, so
\* that completion is signaled.
C6_StopCompletes ==
    ~(cpc = "wait" /\ rpc = "push" /\ ifeLocked)

\* C7: the done channel is signaled at most once for a Start, the first Stop of
\* a run only closes the stop channel, and any other Stop changes nothing of the
\* consumer and fails nothing.
C7_StopIdempotent ==
    /\ [](doneCount <= 1)
    /\ [][Stop =>
            \/ /\ cstop = "set" /\ ~stopClosed
               /\ stopClosed' /\ cstop' = "nil"
               /\ UNCHANGED <<file, lastId, saved, processing, body, ifeVars,
                              stopRead, stopSave, readVars, ctlVars, saveVars,
                              srvVars, callerVars>>
            \/ UNCHANGED <<file, lastId, saved, processing, cstop, body, ifeVars,
                           chanVars, readVars, ctlVars, saveVars, srvVars,
                           callerVars>>
        ]_vars

\* C7 witness: Stop was called again after the stop was requested, and the
\* completion was signaled once
C7_Witness ==
    /\ stopNoop
    /\ doneCount = 1
    /\ cpc = "exit"

\* C8: when the completion is signaled, readStream and periodicStateSaving
\* have returned, and from then on nothing is delivered, no error is sent,
\* nothing is pushed onto the ledger and the state file is not written.
C8_CompletionAfterWorkers ==
    /\ [](cpc \in {"senddone", "exit"} =>
            rpc = "exit" /\ spc \in {"exit", "none"})
    /\ [][(cpc \in {"senddone", "exit"}) =>
            /\ delivered' = delivered
            /\ file' = file
            /\ Range(ids') \subseteq Range(ids)
            /\ rpc' = rpc
            /\ spc' = spc
        ]_vars

\* C8 witness: the completion was signaled after an operation was delivered and
\* acknowledged and its id written to the state file
C8_Witness ==
    /\ doneCount = 1
    /\ Len(delivered) = 1
    /\ file = delivered[1].id
    /\ spc = "exit"

\* C9: at most one read loop is active on a consumer, whichever goroutines call
\* Start.
C9_AtMostOneReadLoop ==
    Cardinality(ReadLoops) <= 1

\* C10: Start returns its channels to the caller, also when loading the
\* persisted position fails.
C10_StartReturns ==
    ~startBlocked

\* C11: a failed write of the position leaves the position dirty: when the save
\* loop reaches c.saved = lastId == c.lastId and the state file does not hold the
\* token it tried to write, saved stays false, so that the next tick writes and
\* reports again.
C11_FailedWriteStaysDirty ==
    [][(spc = "update" /\ spc' = "wait" /\ file # sLastId) => ~saved']_vars

\* C12: while saved is true the state file holds the current lastId.
C12_SavedMeansOnDisk ==
    (stateFile /\ saved) => file = lastId

\* C13: no delay waited before a reconnect attempt exceeds 30 seconds; the delay
\* of the step that sends the error and sleeps is the value of backoff it starts
\* with.
C13_BackoffCapped ==
    [][(rpc = "senderr" /\ rpc' = "reconnect") => backoff <= BackoffCap * Second]_vars

\* C14: the delay waited after a stream that was opened by a successful connect
\* has failed is 1 second.
C14_BackoffResetByConnect ==
    [][(rpc = "senderr" /\ rpc' = "reconnect" /\ body = "broken") =>
            backoff = Second]_vars

\* the errors connect returns
ConnectErrors == {"transport", "resume", "denied", "http"}

\* C15: the error of a failed connect attempt is reported: from the failed
\* attempt, which leaves the dummy body, until the read loop has sent an error,
\* the error it holds for the errors channel is the one connect returned.
C15_ConnectErrorReported ==
    (body = "dummy" /\ rpc \in {"next", "senderr"}) => rerr \in ConnectErrors

\* C16: connect classifies a response in this order: a transport error; else,
\* when a position was sent and the response does not echo it, ResumeFailed
\* whatever the status; else AccessDenied for 401 and 403; else a generic error
\* for a status other than 200; else success, and the response body becomes the
\* stream. On every failure the body is the empty dummy, so that no operation of
\* the response is read or delivered, and the position is unchanged.
C16_ConnectClassification ==
    [][(attempts' # attempts) =>
          LET r == lastResp'
              noEcho == lastId # NoId /\ ~r.echo
          IN  /\ r.neterr => rerr' = "transport"
              /\ (~r.neterr /\ noEcho) => rerr' = "resume"
              /\ (~r.neterr /\ ~noEcho /\ r.status \in {401, 403}) =>
                    rerr' = "denied"
              /\ (~r.neterr /\ ~noEcho /\ r.status \notin {200, 401, 403}) =>
                    rerr' = "http"
              /\ (~r.neterr /\ ~noEcho /\ r.status = 200) =>
                    rerr' = NoErr /\ body' = "open"
              /\ rerr' # NoErr =>
                    /\ body' = "dummy" /\ cursor' = 0
                    /\ lastId' = lastId /\ saved' = saved
                    /\ delivered' = delivered /\ ids' = ids
      ]_vars

\* C16 witness: a request that sent a position was answered 401 without the
\* echo, and connect returned ResumeFailed
C16_Witness ==
    /\ lastResp = [neterr |-> FALSE, echo |-> FALSE, status |-> 401]
    /\ lastId # NoId
    /\ rerr = "resume"
    /\ body = "dummy"

\* the last call of decoder.next ended at a record boundary: an empty line
\* after at least one field line
AtBoundary ==
    /\ derr # "none"
    /\ dread # <<>>
    /\ dread[Len(dread)].f = "blank"
    /\ \E i \in 1..Len(dread) : dread[i].f \in {"id", "event", "data"}

\* C17: a call that ends at a record boundary of a record without an event
\* field fails with IncompleteEvent.
C17_IncompleteEvent ==
    (AtBoundary /\ ~\E i \in 1..Len(dread) : dread[i].f = "event") =>
        derr = "incomplete"

\* C18: a call that ends because the stream ended before a record boundary
\* fails with ConnectionClosed, whatever it had read.
C18_ConnectionClosed ==
    (derr # "none" /\ ~AtBoundary) => derr = "closed"

\* C19: a call that ends at the boundary of a record one of whose data values
\* failed JSON decoding fails with InvalidEvent, whatever the event and the
\* other lines of the record.
C19_InvalidData ==
    (AtBoundary /\ \E i \in 1..Len(dread) :
                      dread[i].f = "data" /\ dread[i].v # "ok") =>
        derr = "invalid"

NoDuplicate(s) == \A i, j \in 1..Len(s) : s[i] = s[j] => i = j

\* C20: the ledger never holds an id twice; a push keeps the other ids in
\* their order, changes nothing (count included) when the id is present and
\* appends it otherwise; a pull removes only its id and keeps the order of the
\* others, returns -1 and changes nothing when the id is absent, and returns
\* the index the id held otherwise, 0 for the first.
C20_LedgerOrderAndDedup ==
    /\ [](NoDuplicate(ids))
    /\ [][LET id == lcall'[2] IN
            /\ (lcall'[1] = "push") =>
                  /\ Without(ids', id) = Without(ids, id)
                  /\ id \in Range(ids) => ids' = ids /\ count(ids') = count(ids)
                  /\ id \notin Range(ids) => ids' = Append(ids, id)
            /\ (lcall'[1] = "pull") =>
                  /\ ids' = Without(ids, id)
                  /\ id \notin Range(ids) => idx' = NotFound /\ ids' = ids
                  /\ id \in Range(ids) => idx' >= 0 /\ ids[idx' + 1] = id
                  /\ (Len(ids) > 0 /\ ids[1] = id) => idx' = 0
      ]_vars

\* C20 witness: id 2 was pulled from between 1 and 3 and its index was 1
C20_Witness ==
    /\ lcall = <<"pull", 2>>
    /\ idx = 1
    /\ ids = <<1, 3>>

\* C21: a change of the position between the save loop's read and its update of
\* saved leaves the position dirty; and, once periodicStateSaving runs, unless
\* a write fails, the save loop is stopped or the process dies, the state file
\* eventually holds lastId with saved true for good (the position changes
\* finitely often).
C21_PositionEventuallySaved ==
    /\ [][(spc = "update" /\ spc' = "wait" /\ sLastId # lastId) => ~saved']_vars
    /\ \/ [](spc = "idle")
       \/ <>(spc = "senderr")
       \/ <>(stopSave \/ panicked)
       \/ <>[](saved /\ file = lastId)

\* C21 witness: the save loop has written the token it read, the position has
\* been changed by the caller since, and the position is dirty
C21_Witness ==
    /\ spc = "update"
    /\ file = sLastId
    /\ sLastId # lastId
    /\ posSet
    /\ ~saved

\* C22: a record without an id is decoded into the Operation readStream reuses
\* and keeps the id that Operation held, also across a reconnect; it is
\* delivered with that id, which is the empty one or that of a record with an
\* id; its push leaves the ledger alone while that id is in flight, and its
\* acknowledgement pulls that id, and advances the position to it when it was
\* at index 0.
C22_IdReusedAcrossRecords ==
    /\ [][(rpc = "next" /\ rpc' = "push" /\ feed'[cursor'] = "live") =>
              op'.id = op.id /\ op'.event = "live"]_vars
    /\ [](\A i \in 1..Len(delivered) :
              delivered[i].event = "live" =>
                  \/ delivered[i].id = NoId
                  \/ feed[delivered[i].id] # "live")
    /\ [][(rpc = "push" /\ rpc' # "push" /\ op.event = "live"
              /\ op.id \in Range(ids)) => ids' = ids]_vars
    /\ [][(cpc = "pull" /\ cpc' # "pull" /\ ackOp.event = "live") =>
              /\ ids' = Without(ids, ackOp.id)
              /\ (Len(ids) > 0 /\ ids[1] = ackOp.id) => cpc' = "setlast"]_vars

\* C22 witness: record 1 and the record without id that followed it were
\* delivered with id 1, in one ledger entry; the second was acknowledged and the
\* position moved to 1 while the first is not acknowledged
C22_Witness ==
    /\ Len(delivered) = 2
    /\ delivered[1] = [id |-> 1, event |-> "insert"]
    /\ delivered[2] = [id |-> 1, event |-> "live"]
    /\ acked = {2}
    /\ ids = <<>>
    /\ lastId = 1

====
